---- MODULE Spec2Model ----
(***************************************************************************)
(* A model of the content script of the CEFR text-level rewriter           *)
(* (src/unnamed/part_000, the consolidated draft of src/content.js).       *)
(*                                                                         *)
(* Strings are sequences of one-character strings, so that trimming,       *)
(* whitespace collapsing, searching and cutting are computed the way the   *)
(* script computes them.                                                   *)
(***************************************************************************)
EXTENDS Integers, Sequences, FiniteSets, TLC

----------------------------------------------------------------------------
(* Program constants *)

\* cleanRewrittenText: "Only clean if > 15 chars" (original.length < 15 returns)
MinCleanLen == 15
\* cleanRewrittenText: rewritten.slice(-original.length - 10)
TailSlack == 10
\* rewriteTextWithOpenAI: substring(0, 2000)
MaxCleanLen == 2000

----------------------------------------------------------------------------
(* JavaScript string primitives *)

WS == {" ", "\n", "\t"}

Min(a, b) == IF a <= b THEN a ELSE b

Max(a, b) == IF a >= b THEN a ELSE b

SetMin(S) == CHOOSE x \in S : \A y \in S : x <= y

SetMax(S) == CHOOSE x \in S : \A y \in S : x >= y

\* String.prototype.trim
trim(s) ==
    LET First(i) == s[i] \notin WS /\ \A j \in 1..(i - 1) : s[j] \in WS
        Last(i) == s[i] \notin WS /\ \A j \in (i + 1)..Len(s) : s[j] \in WS
    IN  IF \A i \in 1..Len(s) : s[i] \in WS THEN <<>>
        ELSE SubSeq(s, CHOOSE i \in 1..Len(s) : First(i),
                       CHOOSE i \in 1..Len(s) : Last(i))

IsBlank(s) == trim(s) = <<>>

KeepsWs(pair) == ~(pair[1] \in WS /\ pair[2])

\* s.replace(/\s+/g, ' '): every run of whitespace becomes one space
collapseWs(s) ==
    LET tagged == [i \in 1..Len(s) |-> <<s[i], i > 1 /\ s[i - 1] \in WS>>]
        kept == SelectSeq(tagged, KeepsWs)
    IN  [i \in 1..Len(kept) |-> IF kept[i][1] \in WS THEN " " ELSE kept[i][1]]

\* s.substring(a, b) for 0 <= a <= b
substring(s, a, b) == SubSeq(s, a + 1, Min(b, Len(s)))

Occurrences(s, sub) ==
    {i \in 0..(Len(s) - Len(sub)) : SubSeq(s, i + 1, i + Len(sub)) = sub}

\* s.includes(sub)
includes(s, sub) == Occurrences(s, sub) # {}

\* s.indexOf(sub)
indexOf(s, sub) == IF includes(s, sub) THEN SetMin(Occurrences(s, sub)) ELSE -1

\* s.lastIndexOf(sub)
lastIndexOf(s, sub) == IF includes(s, sub) THEN SetMax(Occurrences(s, sub)) ELSE -1

\* s.replace(sub, ''): removes the first occurrence only
removeFirst(s, sub) ==
    IF ~includes(s, sub) THEN s
    ELSE LET i == indexOf(s, sub)
         IN  SubSeq(s, 1, i) \o SubSeq(s, i + Len(sub) + 1, Len(s))

\* s.slice(-k) for k > 0
sliceLast(s, k) == IF k >= Len(s) THEN s ELSE SubSeq(s, Len(s) - k + 1, Len(s))

----------------------------------------------------------------------------
(* Rewrite Client *)

\* Math.floor(original.length * 0.8)
tailThreshold(original) == (Len(original) * 8) \div 10

\* The second heuristic of cleanRewrittenText: chop at the last place where
\* the first 80% of the original starts, when the tail holds it.
cleanTail(rewritten, original) ==
    LET chunk == substring(original, 0, tailThreshold(original))
        tail == sliceLast(rewritten, Len(original) + TailSlack)
        cutIndex == lastIndexOf(rewritten, chunk)
    IN  IF includes(tail, chunk) /\ cutIndex > 0
        THEN trim(substring(rewritten, 0, cutIndex))
        ELSE rewritten

cleanRewrittenText(rewritten, original) ==
    IF Len(original) < MinCleanLen THEN rewritten
    ELSE IF includes(rewritten, original)
         THEN IF Len(rewritten) = Len(original) THEN rewritten
              ELSE trim(removeFirst(rewritten, original))
         ELSE cleanTail(rewritten, original)

\* text.trim().replace(/\s+/g, ' ').substring(0, 2000)
cleanTextOf(text) == substring(collapseWs(trim(text)), 0, MaxCleanLen)

\* What the fetch of the chat completion can come to.
\*   reject    : the network call rejects
\*   http      : response.ok is false (the error body parses)
\*   httpNoBody: response.ok is false and response.json() rejects
\*   malformed : the body has no choices[0].message.content
\*   ok        : a completion whose text is `content`
FailKinds == {"reject", "http", "httpNoBody", "malformed"}

FailOutcome(kind) == [kind |-> kind, content |-> <<>>]

OkOutcome(content) == [kind |-> "ok", content |-> content]

\* the call failed in the sense of the Rewrite Client: no usable completion
ClientFailed(outcome) == outcome.kind \in FailKinds \/ IsBlank(outcome.content)

Resolved(v) == [settled |-> "resolved", value |-> v]

Rejected == [settled |-> "rejected", value |-> <<>>]

\* rewriteTextWithOpenAI with the catch returning the clean text it built
rewriteTextReturnsClean(text, outcome) ==
    IF outcome.kind \in FailKinds THEN Resolved(cleanTextOf(text))
    ELSE LET rewrittenText == trim(outcome.content)
         IN  IF rewrittenText = <<>> THEN Resolved(cleanTextOf(text))
             ELSE Resolved(cleanRewrittenText(rewrittenText, cleanTextOf(text)))

\* The value of the promise rewriteTextWithOpenAI returns.
rewriteTextWithOpenAI(text, outcome) ==
    IF outcome.kind \in FailKinds THEN Resolved(text)
    ELSE LET rewrittenText == trim(outcome.content)
         IN  IF rewrittenText = <<>> THEN Resolved(text)
             ELSE Resolved(cleanRewrittenText(rewrittenText, cleanTextOf(text)))

----------------------------------------------------------------------------
(* The page: a store of DOM nodes.  A node's id is its index in the store; *)
(* nodes are only ever added (a detached node stays, out of the document). *)

StyleProps ==
    {"fontSize", "fontFamily", "fontWeight", "fontStyle", "textDecoration",
     "textTransform", "lineHeight", "color", "textAlign", "letterSpacing",
     "opacity", "transition"}

NoStyle == [p \in StyleProps |-> ""]

\* An element node
Elem(tag, cls, role, onclick, hidden, parent, kids, style) ==
    [kind |-> "elem", tag |-> tag, cls |-> cls, role |-> role,
     onclick |-> onclick, hidden |-> hidden, parent |-> parent,
     kids |-> kids, data |-> <<>>, style |-> style]

\* A text node
Text(parent, data) ==
    [kind |-> "text", tag |-> "#text", cls |-> "", role |-> "",
     onclick |-> FALSE, hidden |-> FALSE, parent |-> parent,
     kids |-> <<>>, data |-> data, style |-> NoStyle]

P(parent, kids) == Elem("p", "", "", FALSE, FALSE, parent, kids, NoStyle)

BodyId == 1

RECURSIVE Connected(_, _)
Connected(d, id) ==
    IF id = BodyId THEN TRUE
    ELSE IF d[id].parent = 0 THEN FALSE
    ELSE Connected(d, d[id].parent)

RECURSIVE textContent(_, _)
RECURSIVE textOfKids(_, _)
\* node.textContent (getter): the data of the descendant text nodes, in order
textContent(d, id) ==
    IF d[id].kind = "text" THEN d[id].data ELSE textOfKids(d, d[id].kids)

textOfKids(d, ids) ==
    IF ids = <<>> THEN <<>>
    ELSE textContent(d, Head(ids)) \o textOfKids(d, Tail(ids))

RECURSIVE descendants(_, _)
RECURSIVE descendantsOfKids(_, _)
\* the nodes below `id`, in document order
descendants(d, id) == descendantsOfKids(d, d[id].kids)

descendantsOfKids(d, ids) ==
    IF ids = <<>> THEN <<>>
    ELSE <<Head(ids)>> \o descendants(d, Head(ids)) \o descendantsOfKids(d, Tail(ids))

IsTextNode(d, id) == d[id].kind = "text"

\* getTextNodes(element): every descendant text node, in document order
getTextNodes(d, id) ==
    LET all == descendants(d, id)
        IsText(n) == IsTextNode(d, n)
    IN  SelectSeq(all, IsText)

----------------------------------------------------------------------------
(* Serialized markup.  innerHTML is modelled as the sequence of the        *)
(* children's markup items; as in the serialized string, an empty text     *)
(* node leaves no trace and adjacent text nodes run together.              *)

TextItem(data) ==
    [k |-> "t", tag |-> "#text", cls |-> "", role |-> "", onclick |-> FALSE,
     hidden |-> FALSE, style |-> NoStyle, data |-> data, kids |-> <<>>]

ElemItem(n, kids) ==
    [k |-> "e", tag |-> n.tag, cls |-> n.cls, role |-> n.role,
     onclick |-> n.onclick, hidden |-> n.hidden, style |-> n.style,
     data |-> <<>>, kids |-> kids]

RECURSIVE joinText(_)
\* drop empty text items and merge adjacent ones
joinText(items) ==
    IF items = <<>> THEN <<>>
    ELSE LET h == Head(items)
             rest == joinText(Tail(items))
         IN  IF h.k = "t" /\ h.data = <<>> THEN rest
             ELSE IF h.k = "t" /\ rest # <<>> /\ Head(rest).k = "t"
                  THEN <<TextItem(h.data \o Head(rest).data)>> \o Tail(rest)
                  ELSE <<h>> \o rest

RECURSIVE serialize(_, _)
RECURSIVE serializeKids(_, _)
serialize(d, id) ==
    IF d[id].kind = "text" THEN TextItem(d[id].data)
    ELSE ElemItem(d[id], joinText(serializeKids(d, d[id].kids)))

serializeKids(d, ids) ==
    IF ids = <<>> THEN <<>>
    ELSE <<serialize(d, Head(ids))>> \o serializeKids(d, Tail(ids))

\* element.innerHTML (getter)
innerHTML(d, id) == joinText(serializeKids(d, d[id].kids))

RECURSIVE parseInto(_, _, _)
\* The HTML parser: new nodes for `items` under `parent`, added to the store.
parseInto(d, parent, items) ==
    IF items = <<>> THEN [d |-> d, ids |-> <<>>]
    ELSE LET it == Head(items)
             id == Len(d) + 1
             node == IF it.k = "t" THEN Text(parent, it.data)
                     ELSE Elem(it.tag, it.cls, it.role, it.onclick, it.hidden,
                               parent, <<>>, it.style)
             sub == parseInto(Append(d, node), id, it.kids)
             d2 == [sub.d EXCEPT ![id].kids = sub.ids]
             rest == parseInto(d2, parent, Tail(items))
         IN  [d |-> rest.d, ids |-> <<id>> \o rest.ids]

\* the store with the children of `id` taken out of the tree
detachKids(d, id) ==
    [n \in 1..Len(d) |->
        IF d[n].parent = id /\ n # id THEN [d[n] EXCEPT !.parent = 0]
        ELSE IF n = id THEN [d[n] EXCEPT !.kids = <<>>]
        ELSE d[n]]

\* element.innerHTML = markup
setInnerHTML(d, id, markup) ==
    LET built == parseInto(detachKids(d, id), id, markup)
    IN  [built.d EXCEPT ![id].kids = built.ids]

\* node.textContent = s
setTextContent(d, id, s) ==
    IF d[id].kind = "text" THEN [d EXCEPT ![id].data = s]
    ELSE IF s = <<>> THEN detachKids(d, id)
    ELSE LET cleared == detachKids(d, id)
             tid == Len(d) + 1
         IN  [Append(cleared, Text(id, s)) EXCEPT ![id].kids = <<tid>>]

----------------------------------------------------------------------------
(* Texts of the pages *)

WeatherRaw ==
    <<"\n", " ", " ", "T", "h", "e", " ", "w", "e", "a", "t", "h", "e", "r", " ", "w", "a", "s", " ", "v", "e", "r", "y", " ", " ", "c", "o", "l", "d", " ", "t", "o", "d", "a", "y", ".", "\n">>

ReadA ==
    <<"R", "e", "a", "d", "i", "n", "g", " ", "b", "o", "o", "k", "s", " ", "i", "s", " ">>

ReadB ==
    <<"r", "e", "a", "l", "l", "y">>

ReadC ==
    <<" ", "f", "u", "n", " ", "f", "o", "r", " ", "e", "v", "e", "r", "y", "o", "n", "e", ".">>

LongPara ==
    <<"T", "h", "e", " ", "s", "e", "c", "o", "n", "d", " ", "p", "a", "r", "a", "g", "r", "a", "p", "h", " ", "i", "s", " ", "l", "o", "n", "g", " ", "e", "n", "o", "u", "g", "h", ".">>

ShortPara ==
    <<"S", "e", "e", " ", "y", "o", "u", " ", "s", "o", "o", "n">>

LinkPara ==
    <<"C", "l", "i", "c", "k", " ", "h", "e", "r", "e", " ", "t", "o", " ", "r", "e", "a", "d", " ", "t", "h", "e", " ", "w", "h", "o", "l", "e", " ", "s", "t", "o", "r", "y", ".">>

NavPara ==
    <<"H", "o", "m", "e", " ", "a", "n", "d", " ", "n", "e", "w", "s", " ", "a", "n", "d", " ", "s", "p", "o", "r", "t", "s", " ", "a", "n", "d", " ", "w", "e", "a", "t", "h", "e", "r">>

TinyPara ==
    <<"T", "o", "o", " ", "s", "h", "o", "r", "t", ".">>

EasyText ==
    <<"E", "a", "s", "y", " ", "w", "o", "r", "d", "s", " ", "h", "e", "r", "e", ".">>

IndentWs ==
    <<"\n", " ", " ">>

----------------------------------------------------------------------------
(* Styles: the inline style of an element and what getComputedStyle reads. *)

\* the ten properties replaceElementTextContent captures in forcedStyles
CapturedProps ==
    {"fontSize", "fontFamily", "fontWeight", "fontStyle", "textDecoration",
     "textTransform", "lineHeight", "color", "textAlign", "letterSpacing"}

\* the nine properties its delayed substitution writes back
ForcedProps ==
    {"fontSize", "fontFamily", "fontWeight", "fontStyle", "textDecoration",
     "textTransform", "lineHeight", "color", "textAlign"}

\* the eight properties resetPageContent blanks
ResetProps ==
    {"fontSize", "fontFamily", "fontWeight", "fontStyle", "textDecoration",
     "lineHeight", "color", "textAlign"}

InheritedProps == CapturedProps \ {"textDecoration"}

InitialValue ==
    [fontSize |-> "16px", fontFamily |-> "serif", fontWeight |-> "400",
     fontStyle |-> "normal", textDecoration |-> "none", textTransform |-> "none",
     lineHeight |-> "normal", color |-> "rgb(0, 0, 0)", textAlign |-> "start",
     letterSpacing |-> "normal", opacity |-> "1", transition |-> "all 0s ease 0s"]

\* the style sheet of the pages: what a rule gives an element, "" for no rule
SheetValue(n, p) ==
    IF n.cls = "lead" /\ p = "fontWeight" THEN "700"
    ELSE IF n.cls = "lead" /\ p = "fontStyle" THEN "italic"
    ELSE IF n.cls = "lead" /\ p = "letterSpacing" THEN "2px"
    ELSE IF n.tag = "em" /\ p = "fontStyle" THEN "italic"
    ELSE IF n.tag = "h2" /\ p = "fontWeight" THEN "700"
    ELSE ""

RECURSIVE cascaded(_, _, _)
cascaded(d, id, p) ==
    IF d[id].style[p] # "" THEN d[id].style[p]
    ELSE IF SheetValue(d[id], p) # "" THEN SheetValue(d[id], p)
    ELSE IF p \in InheritedProps /\ d[id].parent # 0 THEN cascaded(d, d[id].parent, p)
    ELSE InitialValue[p]

\* window.getComputedStyle(element)[p]; an element out of the document has
\* no computed values
getComputedStyle(d, id, p) == IF Connected(d, id) THEN cascaded(d, id, p) ELSE ""

----------------------------------------------------------------------------
(* Content Selector *)

\* storeOriginalTexts: trimmed text must be longer than this
MinUnitLen == 25
\* rewriteTextElements: "Only process substantial text"
MinProcessLen == 10

HeadingTags == {"h1", "h2", "h3", "h4", "h5", "h6"}

\* class values in which [class*="nav"], [class*="menu"] or
\* [class*="sidebar"] finds its substring
ExcludedDivClasses == {"nav", "navbar", "navigation", "menu", "sidebar"}

\* the selector list of storeOriginalTexts: p, h1..h6 (the descendant forms
\* such as "article p" select nothing more) and the div that passes the :not()s
matchesSelector(n) ==
    /\ n.kind = "elem"
    /\ \/ n.tag = "p"
       \/ n.tag \in HeadingTags
       \/ n.tag = "div" /\ n.cls \notin ExcludedDivClasses

RECURSIVE anyHidden(_, _)
anyHidden(d, id) ==
    \/ d[id].hidden
    \/ d[id].parent # 0 /\ anyHidden(d, d[id].parent)

\* isVisible: display, visibility, opacity and a rendered box (an element
\* with `hidden` set, or below one, has display none or an empty box)
isVisible(d, id) ==
    /\ Connected(d, id)
    /\ ~anyHidden(d, id)
    /\ getComputedStyle(d, id, "opacity") # "0"

NavTags == {"nav", "header", "footer", "aside"}

NavClasses == {"nav", "navigation", "menu", "header", "footer", "sidebar"}

RECURSIVE isInNav(_, _)
\* element.closest('nav, .nav, .navigation, .menu, header, ...')
isInNav(d, id) ==
    \/ d[id].tag \in NavTags
    \/ d[id].cls \in NavClasses
    \/ d[id].parent # 0 /\ isInNav(d, d[id].parent)

isInteractive(d, id) ==
    \/ d[id].tag = "button"
    \/ d[id].tag = "a"
    \/ d[id].role = "button"
    \/ d[id].onclick

\* the same test without the length condition
isEligibleAnyLength(d, id) ==
    /\ isVisible(d, id)
    /\ ~isInNav(d, id)
    /\ ~isInteractive(d, id)

\* the test of storeOriginalTexts on one element of the query result
isEligible(d, id) ==
    /\ Len(trim(textContent(d, id))) > MinUnitLen
    /\ isVisible(d, id)
    /\ ~isInNav(d, id)
    /\ ~isInteractive(d, id)

\* document.querySelectorAll(...): the matching elements in document order
querySelectorAll(d) ==
    LET all == descendants(d, BodyId)
        Matches(n) == matchesSelector(d[n])
    IN  SelectSeq(all, Matches)

Unit(d, id) ==
    [element |-> id, originalText |-> textContent(d, id),
     originalHTML |-> innerHTML(d, id)]

\* an entry set under a key one too high
EntryOneBased(index, unit) ==
    [index |-> index + 1, element |-> unit.element,
     originalText |-> unit.originalText, originalHTML |-> unit.originalHTML]

\* originalTexts.set(index, {...}): the entry, its key with its value
Entry(index, unit) ==
    [index |-> index, element |-> unit.element,
     originalText |-> unit.originalText, originalHTML |-> unit.originalHTML]

RECURSIVE forEachElement(_, _, _)
\* textElements.forEach(...) from the elements `els` on, the counter at
\* `index`: the entries it sets, in the order it sets them
forEachElement(d, els, index) ==
    IF els = <<>> THEN <<>>
    ELSE IF isEligible(d, Head(els))
         THEN <<Entry(index, Unit(d, Head(els)))>>
              \o forEachElement(d, Tail(els), index + 1)
         ELSE forEachElement(d, Tail(els), index)

\* storeOriginalTexts: the new content of originalTexts, its entries in the
\* order of insertion, which is the order a Map is iterated in
storeOriginalTexts(d) == forEachElement(d, querySelectorAll(d), 0)

\* originalTexts.clear()
clearMap(m) == <<>>

\* storeOriginalTexts run on the Map as it stands, the entries of an earlier
\* run kept ahead of the new ones
storeAppending(m, d) == m \o storeOriginalTexts(d)

\* storeOriginalTexts run on the Map as it stands: the Map is emptied, then
\* filled under the keys 0, 1, ...
storeInto(m, d) == clearMap(m) \o storeOriginalTexts(d)

----------------------------------------------------------------------------
(* Visual-Preserving Writer *)

\* the primary text node must have more than this many characters, trimmed
MainTextMinLen == 5
\* a secondary text node shorter than this is emptied
FragmentMaxLen == 50
\* the timers of the script, in milliseconds
WriteDelay == 150
PaceDelay == 200
FadeDelay == 300

SkippedParents == {"script", "style", "noscript"}

\* forcedStyles
captureStyles(d, el) == [p \in CapturedProps |-> getComputedStyle(d, el, p)]

\* a substitution delayed beyond the pacing delay
writeTimerLate(d, el, newText) ==
    [kind |-> "write", delay |-> PaceDelay + 50, inv |-> 0, element |-> el,
     newText |-> newText, forcedStyles |-> captureStyles(d, el),
     originalClass |-> d[el].cls, originalStyle |-> d[el].style]

\* the synchronous part of replaceElementTextContent: the timer it sets
writeTimer(d, el, newText) ==
    [kind |-> "write", delay |-> WriteDelay, inv |-> 0, element |-> el,
     newText |-> newText, forcedStyles |-> captureStyles(d, el),
     originalClass |-> d[el].cls, originalStyle |-> d[el].style]

\* ... and the visual transition it starts
beginTransition(d, el) ==
    [d EXCEPT ![el].style["transition"] = "opacity 0.3s ease",
              ![el].style["opacity"] = "0.7"]

\* mainTextNode: the first text node with enough text outside script and
\* style, or else the first text node
mainTextNode(d, textNodes) ==
    LET good == {i \in 1..Len(textNodes) :
                    /\ Len(trim(d[textNodes[i]].data)) > MainTextMinLen
                    /\ d[d[textNodes[i]].parent].tag \notin SkippedParents}
    IN  IF good # {} THEN textNodes[SetMin(good)] ELSE textNodes[1]

\* the forEach that empties the small fragments beside the main node
clearFragments(d, textNodes, main) ==
    [n \in 1..Len(d) |->
        IF /\ \E i \in 1..Len(textNodes) : textNodes[i] = n
           /\ n # main
           /\ Len(trim(d[n].data)) > 0
           /\ Len(d[n].data) < FragmentMaxLen
        THEN [d[n] EXCEPT !.data = <<>>]
        ELSE d[n]]

\* the substitution of the delayed callback
substituteText(d, el, newText) ==
    IF Len(d[el].kids) = 1 /\ d[d[el].kids[1]].kind = "text"
    THEN setTextContent(d, el, newText)
    ELSE LET textNodes == getTextNodes(d, el)
         IN  IF Len(textNodes) > 0
             THEN LET main == mainTextNode(d, textNodes)
                  IN  clearFragments([d EXCEPT ![main].data = newText],
                                     textNodes, main)
             ELSE setTextContent(d, el, newText)

\* the end of the transition alone, with no style put back
restoreStylesBare(d, t) ==
    [d EXCEPT ![t.element].style = [NoStyle EXCEPT !["opacity"] = "1"]]

\* "Restore base attributes", the forced typography, the end of the transition
restoreStyles(d, t) ==
    LET el == t.element
        restored == [p \in StyleProps |->
                        IF p = "opacity" THEN "1"
                        ELSE IF p \in ForcedProps THEN t.forcedStyles[p]
                        ELSE t.originalStyle[p]]
    IN  [d EXCEPT ![el].cls = t.originalClass, ![el].style = restored]

\* the whole delayed callback of replaceElementTextContent
completeWrite(d, t) == restoreStyles(substituteText(d, t.element, t.newText), t)

----------------------------------------------------------------------------
(* Reset *)

\* resetElement restoring the text instead of the markup
resetElementTextOnly(d, item) ==
    LET d1 == setTextContent(d, item.element, item.originalText)
    IN  [d1 EXCEPT ![item.element].style =
            [p \in StyleProps |->
                IF p \in ResetProps THEN "" ELSE d1[item.element].style[p]]]

\* the body of the forEach of resetPageContent
resetElement(d, item) ==
    LET d1 == setInnerHTML(d, item.element, item.originalHTML)
    IN  [d1 EXCEPT ![item.element].style =
            [p \in StyleProps |->
                IF p \in ResetProps THEN "" ELSE d1[item.element].style[p]]]

RECURSIVE resetAll(_, _)
resetAll(d, units) ==
    IF units = <<>> THEN d
    ELSE resetAll(resetElement(d, Head(units)), Tail(units))

\* the cue on document.body
bodyCue(d) ==
    [d EXCEPT ![BodyId].style["transition"] = "opacity 0.3s ease",
              ![BodyId].style["opacity"] = "0.8"]

\* resetPageContent without its guard
resetAppliesAlways(active) == TRUE

\* resetPageContent returns at once unless the page is rewritten
resetApplies(active) == active

----------------------------------------------------------------------------
(* Orchestrator *)

\* the progress counted after the unit instead of before it
unitProgressAfter(processed, total) == 10 + ((processed + 1) * 80) \div total

\* 10 + Math.floor((processedElements / totalElements) * 80)
unitProgress(processed, total) == 10 + (processed * 80) \div total

FirstProgress == 10
LastProgress == 100

\* the loop letting a failed unit escape to the catch of rewritePageContent
unitOutcomeRethrows(text, outcome) ==
    LET r == rewriteTextWithOpenAI(text, outcome)
    IN  IF ClientFailed(outcome)
        THEN [write |-> FALSE, newText |-> <<>>, abort |-> TRUE]
        ELSE [write |-> TRUE, newText |-> r.value, abort |-> FALSE]

\* the try/catch of rewriteTextElements around one unit: whether the Writer
\* is called, with what text, and whether anything escapes the loop
unitOutcome(text, outcome) ==
    LET r == rewriteTextWithOpenAI(text, outcome)
    IN  IF r.settled = "resolved"
        THEN [write |-> TRUE, newText |-> r.value, abort |-> FALSE]
        ELSE [write |-> FALSE, newText |-> <<>>, abort |-> FALSE]

----------------------------------------------------------------------------
(* Answers to messages *)

NoItem == [index |-> 0 - 1, element |-> 0, originalText |-> <<>>, originalHTML |-> <<>>]

NoResp == [sent |-> FALSE, success |-> FALSE, elementsRewritten |-> 0, error |-> ""]

Success(n) == [sent |-> TRUE, success |-> TRUE, elementsRewritten |-> n, error |-> ""]

Failure(msg) == [sent |-> TRUE, success |-> FALSE, elementsRewritten |-> 0, error |-> msg]

\* { success: true, summaryLength: n }
Summarized(n) == [sent |-> TRUE, success |-> TRUE, summaryLength |-> n, error |-> ""]

NoPrompt == [targetWordCount |-> "", text |-> <<>>]

NoOutcome == [kind |-> "none", content |-> <<>>]

\* a summarizePage invocation: where it stands, the prompt it sent, what the
\* service answered and its own answer
NewSum(pc, prompt, resp) ==
    [pc |-> pc, prompt |-> prompt, outcome |-> NoOutcome, resp |-> resp]

----------------------------------------------------------------------------
(* Summarizer *)

\* createSummary: wordCount > 500
SummaryWordLimit == 500

\* cleanTextContent and createSummary: substring(0, 12000)
SummaryMaxLen == 12000

\* extractMainContent: getTextContentLength(element) > 100, length < 100
ContentMinLen == 100

\* s.split(/\s+/).length: one piece more than there are runs of whitespace
splitCount(s) ==
    Cardinality({i \in 1..Len(s) : s[i] \in WS /\ (i = 1 \/ s[i - 1] \notin WS)}) + 1

KeepsNl(pair) == ~(pair[1] = "\n" /\ pair[2])

\* s.replace(/\n+/g, '\n')
collapseNewlines(s) ==
    LET tagged == [i \in 1..Len(s) |-> <<s[i], i > 1 /\ s[i - 1] = "\n">>]
        kept == SelectSeq(tagged, KeepsNl)
    IN  [i \in 1..Len(kept) |-> kept[i][1]]

cleanTextContent(text) ==
    substring(trim(collapseNewlines(collapseWs(text))), 0, SummaryMaxLen)

getTextContentLength(d, el) == Len(trim(collapseWs(textContent(d, el))))

\* contentSelectors, each a test on a tag, a role or a class
ContentSelectors ==
    << [by |-> "tag", v |-> "main"], [by |-> "tag", v |-> "article"],
       [by |-> "role", v |-> "main"], [by |-> "cls", v |-> "content"],
       [by |-> "cls", v |-> "main-content"], [by |-> "cls", v |-> "post-content"],
       [by |-> "cls", v |-> "article-content"], [by |-> "cls", v |-> "story-content"],
       [by |-> "cls", v |-> "entry-content"] >>

selects(sel, n) ==
    /\ n.kind = "elem"
    /\ CASE sel.by = "tag" -> n.tag = sel.v
         [] sel.by = "role" -> n.role = sel.v
         [] OTHER -> n.cls = sel.v

\* document.querySelector(selector): the first match in document order, 0
\* for none
querySelector(d, sel) ==
    LET all == <<BodyId>> \o descendants(d, BodyId)
        hits == {i \in 1..Len(all) : selects(sel, d[all[i]])}
    IN  IF hits = {} THEN 0 ELSE all[SetMin(hits)]

RECURSIVE mainContentFrom(_, _)
\* the for-loop over contentSelectors from selector k on
mainContentFrom(d, k) ==
    IF k > Len(ContentSelectors) THEN <<>>
    ELSE LET element == querySelector(d, ContentSelectors[k])
         IN  IF element # 0 /\ getTextContentLength(d, element) > ContentMinLen
             THEN textContent(d, element)
             ELSE mainContentFrom(d, k + 1)

ExcludeTags == {"nav", "header", "footer", "script", "style", "noscript", "iframe"}

ExcludeClasses ==
    {"nav", "header", "footer", "menu", "sidebar", "ad", "advertisement", "banner"}

excluded(n) == n.kind = "elem" /\ (n.tag \in ExcludeTags \/ n.cls \in ExcludeClasses)

RECURSIVE textWithout(_, _)
RECURSIVE textOfKidsWithout(_, _)
\* textContent of the clone of a node once the excluded elements below it
\* have been removed
textWithout(d, id) ==
    IF d[id].kind = "text" THEN d[id].data ELSE textOfKidsWithout(d, d[id].kids)

textOfKidsWithout(d, ids) ==
    IF ids = <<>> THEN <<>>
    ELSE (IF excluded(d[Head(ids)]) THEN <<>> ELSE textWithout(d, Head(ids)))
         \o textOfKidsWithout(d, Tail(ids))

extractMainContent(d) ==
    LET main == mainContentFrom(d, 1)
        mainContent == IF main = <<>> \/ Len(main) < ContentMinLen
                       THEN textWithout(d, BodyId) ELSE main
    IN  cleanTextContent(mainContent)

\* createSummary: the word target it names in the prompt
targetWordCount(pageText) ==
    IF splitCount(pageText) > SummaryWordLimit THEN "500-600" ELSE "maximum 100"

\* createSummary: what the prompt asks for and the text it carries
summaryPrompt(pageText) ==
    [targetWordCount |-> targetWordCount(pageText),
     text |-> substring(pageText, 0, SummaryMaxLen)]

\* createSummary(textContent, ...) once its fetch has settled with `outcome`
createSummary(pageText, outcome) ==
    IF outcome.kind \in FailKinds THEN Rejected
    ELSE Resolved(trim(outcome.content))

\* the answer to a summarizePage message with nothing caught: none when
\* createSummary rejects
summaryReplyUncaught(r) ==
    IF r.settled = "resolved" THEN Summarized(Len(r.value)) ELSE NoResp

\* the answer to a summarizePage message once createSummary has settled:
\* the return value of summarizePageContent, from its try or from its catch
summaryReply(r) ==
    IF r.settled = "resolved" THEN Summarized(Len(r.value))
    ELSE Failure("Failed to create summary")

\* document.createElement('a') and document.body.appendChild(link)
appendLink(d) ==
    [Append(d, Elem("a", "", "", FALSE, FALSE, BodyId, <<>>, NoStyle))
        EXCEPT ![BodyId].kids = Append(@, Len(d) + 1)]

\* parent.removeChild(child)
removeChild(d, parent, child) ==
    LET Others(k) == k # child
    IN  [d EXCEPT ![parent].kids = SelectSeq(@, Others), ![child].parent = 0]

\* the summary put into the first element of the selector's result
summaryWrittenBack(d, summary) ==
    IF querySelectorAll(d) = <<>> THEN d
    ELSE setTextContent(d, querySelectorAll(d)[1], summary)

\* downloadSummaryAsText: what it does to the page, its link put into the
\* body, clicked and taken out again
downloadSummaryAsText(d, summary) == removeChild(appendLink(d), BodyId, Len(d) + 1)

\* the file downloadSummaryAsText hands to the browser
Download(summary) == [summary |-> summary]

----------------------------------------------------------------------------

(* The pages the script is loaded into *)

Styled(color, opacity) ==
    [NoStyle EXCEPT !["color"] = color, !["opacity"] = opacity]

\* two paragraphs: one plain with raw whitespace, one styled with an <em>
PagePlain ==
    << Elem("body", "", "", FALSE, FALSE, 0, <<2, 4>>, NoStyle),
       P(1, <<3>>),
       Text(2, WeatherRaw),
       Elem("p", "lead", "", FALSE, FALSE, 1, <<5, 6, 8>>,
            Styled("rgb(255, 0, 0)", "0.5")),
       Text(4, ReadA),
       Elem("em", "", "", FALSE, FALSE, 4, <<7>>, NoStyle),
       Text(6, ReadB),
       Text(4, ReadC) >>

\* a div holding a long and a short paragraph
PageNested ==
    << Elem("body", "", "", FALSE, FALSE, 0, <<2>>, NoStyle),
       Elem("div", "content", "", FALSE, FALSE, 1, <<3, 5, 6>>, NoStyle),
       P(2, <<4>>),
       Text(3, LongPara),
       Text(2, IndentWs),
       P(2, <<7>>),
       Text(6, ShortPara) >>

\* paragraphs in a nav, in a link, and hidden
PageFiltered ==
    << Elem("body", "", "", FALSE, FALSE, 0, <<2, 5, 8>>, NoStyle),
       Elem("nav", "", "", FALSE, FALSE, 1, <<3>>, NoStyle),
       P(2, <<4>>),
       Text(3, NavPara),
       Elem("a", "", "", FALSE, FALSE, 1, <<6>>, NoStyle),
       P(5, <<7>>),
       Text(6, LinkPara),
       Elem("p", "", "", FALSE, TRUE, 1, <<9>>, NoStyle),
       Text(8, LongPara) >>

\* nothing long enough to rewrite
PageEmpty ==
    << Elem("body", "", "", FALSE, FALSE, 0, <<2>>, NoStyle),
       P(1, <<3>>),
       Text(2, TinyPara) >>

\* elements of every shape the Writer tells apart, with typography from the
\* style sheet, from the inline style and by inheritance: a paragraph of one
\* text node, one of fragments around an <em>, one holding only an element,
\* and a heading without children
PageShapes ==
    << Elem("body", "", "", FALSE, FALSE, 0, <<2, 4, 10, 12>>, NoStyle),
       Elem("p", "lead", "", FALSE, FALSE, 1, <<3>>, NoStyle),
       Text(2, LongPara),
       Elem("p", "", "", FALSE, FALSE, 1, <<5, 6, 8, 9>>,
            [NoStyle EXCEPT !["fontWeight"] = "900", !["fontStyle"] = "oblique",
                            !["opacity"] = "0.5"]),
       Text(4, ReadA),
       Elem("em", "", "", FALSE, FALSE, 4, <<7>>, NoStyle),
       Text(6, ReadB),
       Text(4, ReadC),
       Text(4, LinkPara \o NavPara),
       Elem("p", "lead", "", FALSE, FALSE, 1, <<11>>, NoStyle),
       Elem("br", "", "", FALSE, FALSE, 10, <<>>, NoStyle),
       Elem("h2", "", "", FALSE, FALSE, 1, <<>>,
            [NoStyle EXCEPT !["fontStyle"] = "italic"]) >>

\* all the text in a nav
PageNavOnly ==
    << Elem("body", "", "", FALSE, FALSE, 0, <<2>>, NoStyle),
       Elem("nav", "", "", FALSE, FALSE, 1, <<3>>, NoStyle),
       P(2, <<4>>),
       Text(3, NavPara) >>

\* a nav and a <main> with more than 100 characters of text
PageArticle ==
    << Elem("body", "", "", FALSE, FALSE, 0, <<2, 5>>, NoStyle),
       Elem("nav", "", "", FALSE, FALSE, 1, <<3>>, NoStyle),
       P(2, <<4>>),
       Text(3, NavPara),
       Elem("main", "", "", FALSE, FALSE, 1, <<6>>, NoStyle),
       P(5, <<7>>),
       Text(6, LinkPara \o WeatherRaw \o LongPara) >>

Pages == {PagePlain, PageNested, PageFiltered, PageEmpty, PageNavOnly, PageArticle}

----------------------------------------------------------------------------
(* State *)

VARIABLES
    dom,            \* the node store of the page
    originalTexts,  \* the Map originalTexts, as the sequence of its values
    isRewritten,    \* the flag isRewritten
    procs,          \* the rewritePage invocations so far, in order of arrival
    timers,         \* the pending setTimeout callbacks, in order of setting
    msgs,           \* the number of messages received
    ev,             \* the step last taken
    pre,            \* the node store when the last rewritePage arrived
    fnIn,           \* the arguments of a function applied on its own
    fnOut,          \* ... and its result
    sums,           \* the summarizePage invocations so far, in order of arrival
    downloads,      \* the files handed to the browser for download
    page            \* the node store as the page was loaded

vars == <<dom, originalTexts, isRewritten, procs, timers, msgs, ev, pre, fnIn, fnOut,
         sums, downloads, page>>

\* messages delivered to the listener in one run
MaxMsgs == 3

NewProc(total) ==
    [pc |-> "start", item |-> NoItem, idx |-> 0, processed |-> 0, total |-> total,
     sent |-> <<FirstProgress>>, called |-> <<>>, failed |-> {}, resp |-> NoResp]

NoForced == [p \in CapturedProps |-> ""]

\* a pacing delay shorter than the Writer's
paceTimerShort(i) ==
    [kind |-> "pace", delay |-> WriteDelay - 50, inv |-> i, element |-> 0,
     newText |-> <<>>, forcedStyles |-> NoForced, originalClass |-> "",
     originalStyle |-> NoStyle]

paceTimer(i) ==
    [kind |-> "pace", delay |-> PaceDelay, inv |-> i, element |-> 0,
     newText |-> <<>>, forcedStyles |-> NoForced, originalClass |-> "",
     originalStyle |-> NoStyle]

fadeTimer ==
    [kind |-> "fade", delay |-> FadeDelay, inv |-> 0, element |-> 0,
     newText |-> <<>>, forcedStyles |-> NoForced, originalClass |-> "",
     originalStyle |-> NoStyle]

\* A timer runs once every timer set before it with no longer a delay has run.
CanFire(j) == \A i \in 1..(j - 1) : timers[i].delay > timers[j].delay

Without(seq, j) == SubSeq(seq, 1, j - 1) \o SubSeq(seq, j + 1, Len(seq))

\* The step last taken: the handler or callback, the invocation it belongs
\* to, isRewritten before it, whether a unit's markup then differed from its
\* stored markup, and the answer it gave to a message (NoResp for none).
Event(op, inv, active, changed, reply) ==
    [op |-> op, inv |-> inv, active |-> active, changed |-> changed,
     reply |-> reply]

NoFn == [fn |-> "none", text |-> <<>>, original |-> <<>>, rewritten |-> <<>>,
         R |-> <<>>, sep |-> <<>>, echo |-> "none", outcome |-> [kind |-> "none", content |-> <<>>]]

NoOut == [done |-> FALSE, settled |-> "", value |-> <<>>]

\* no rewritePage and no summarizePage invocation is under way
Quiet ==
    /\ \A i \in 1..Len(procs) : procs[i].pc = "done"
    /\ \A i \in 1..Len(sums) : sums[i].pc = "done"

----------------------------------------------------------------------------
(* The rewriting service *)

Blank == <<" ", " ">>

Newline == <<"\n">>

\* a text with whitespace around it
Padded(s) == <<" ">> \o s \o Newline

\* what the service may answer to a unit whose clean text is `clean`
SessionOutcomes(clean) ==
    { FailOutcome("reject"), FailOutcome("http"), OkOutcome(Blank),
      OkOutcome(EasyText), OkOutcome(EasyText \o Newline \o clean) }

----------------------------------------------------------------------------
(* Actions of the session *)

\* a loop that goes on to the unit after the next
loopStepSkipping(p, units) ==
    IF p.idx < Len(units)
    THEN [proc |-> [p EXCEPT !.pc = "fetch", !.idx = @ + 2, !.item = units[p.idx + 1],
                             !.sent = Append(@, unitProgress(p.processed, p.total)),
                             !.called = Append(@, p.idx + 1)],
          pace |-> FALSE, finished |-> FALSE]
    ELSE [proc |-> [p EXCEPT !.pc = "done", !.sent = Append(@, LastProgress),
                             !.resp = Success(Len(units))],
          pace |-> FALSE, finished |-> TRUE]

\* One turn of the for-loop of rewriteTextElements, from its head to the
\* next await, and past the loop the end of rewritePageContent.
loopStep(p, units) ==
    IF p.idx < Len(units)
    THEN LET item == units[p.idx + 1]
         IN  IF Len(trim(item.originalText)) > MinProcessLen
             THEN [proc |-> [p EXCEPT !.pc = "fetch", !.idx = @ + 1, !.item = item,
                                      !.sent = Append(@, unitProgress(p.processed, p.total)),
                                      !.called = Append(@, p.idx)],
                   pace |-> FALSE, finished |-> FALSE]
             ELSE [proc |-> [p EXCEPT !.pc = "pace", !.idx = @ + 1,
                                      !.processed = @ + 1],
                   pace |-> TRUE, finished |-> FALSE]
    ELSE [proc |-> [p EXCEPT !.pc = "done", !.sent = Append(@, LastProgress),
                             !.resp = Success(Len(units))],
          pace |-> FALSE, finished |-> TRUE]

\* the selection run whether or not a session is active
unitsAlwaysStored(active, m, d) == storeInto(m, d)

\* rewritePageContent: storeOriginalTexts() if not already stored
unitsFor(active, m, d) == IF active THEN m ELSE storeInto(m, d)

\* originalTexts.clear() under the loops that are iterating the Map: their
\* iterators go on with the entries set after it, from the first
afterClear(ps) ==
    [i \in 1..Len(ps) |-> IF ps[i].pc = "done" THEN ps[i] ELSE [ps[i] EXCEPT !.idx = 0]]

\* the invocations under way once rewritePageContent has its units
iterating(active, ps) == IF active THEN ps ELSE afterClear(ps)

\* The listener's case 'rewritePage': rewritePageContent up to its first
\* await.
OnRewritePage ==
    /\ msgs < MaxMsgs
    /\ LET units == unitsFor(isRewritten, originalTexts, dom)
           i == Len(procs) + 1
           st == loopStep(NewProc(Len(units)), units)
       IN  /\ originalTexts' = units
           /\ procs' = Append(iterating(isRewritten, procs), st.proc)
           /\ timers' = IF st.pace THEN Append(timers, paceTimer(i)) ELSE timers
           /\ isRewritten' = (isRewritten \/ st.finished)
           /\ ev' = Event("rewritePage", i, isRewritten, FALSE, st.proc.resp)
    /\ msgs' = msgs + 1
    /\ pre' = dom
    /\ UNCHANGED <<page, dom, fnIn, fnOut, sums, downloads>>

\* A rewritePage message arrives when the last message has been answered.
RewritePage == Quiet /\ OnRewritePage

\* The fetch of invocation i settles: the rest of rewriteTextWithOpenAI, the
\* synchronous part of replaceElementTextContent, and the pacing timer.
SettleFetch(i) ==
    /\ procs[i].pc = "fetch"
    /\ \E outcome \in SessionOutcomes(cleanTextOf(procs[i].item.originalText)) :
        LET p == procs[i]
            el == p.item.element
            uo == unitOutcome(p.item.originalText, outcome)
            failed == IF ClientFailed(outcome) THEN p.failed \cup {p.idx} ELSE p.failed
        IN  IF uo.abort
            THEN /\ procs' = [procs EXCEPT ![i].pc = "done", ![i].failed = failed,
                                           ![i].resp = Failure("rewrite failed")]
                 /\ UNCHANGED <<dom, timers>>
            ELSE /\ procs' = [procs EXCEPT ![i].pc = "pace", ![i].failed = failed,
                                           ![i].processed = @ + 1]
                 /\ dom' = IF uo.write THEN beginTransition(dom, el) ELSE dom
                 /\ timers' = (IF uo.write
                               THEN Append(timers, [writeTimer(dom, el, uo.newText)
                                                        EXCEPT !.inv = i])
                               ELSE timers) \o <<paceTimer(i)>>
    /\ ev' = Event("settle", i, isRewritten, FALSE, procs'[i].resp)
    /\ UNCHANGED <<page, originalTexts, isRewritten, msgs, pre, fnIn, fnOut, sums, downloads>>

\* The delayed callback of replaceElementTextContent runs.
WriteTimer(j) ==
    /\ timers[j].kind = "write"
    /\ CanFire(j)
    /\ dom' = completeWrite(dom, timers[j])
    /\ timers' = Without(timers, j)
    /\ ev' = Event("write", timers[j].inv, isRewritten, FALSE, NoResp)
    /\ UNCHANGED <<page, originalTexts, isRewritten, procs, msgs, pre, fnIn, fnOut, sums, downloads>>

\* The pacing delay of invocation timers[j].inv ends: the loop goes on.
PaceTimer(j) ==
    /\ timers[j].kind = "pace"
    /\ CanFire(j)
    /\ LET i == timers[j].inv
           st == loopStep(procs[i], originalTexts)
       IN  /\ procs' = [procs EXCEPT ![i] = st.proc]
           /\ timers' = IF st.pace THEN Append(Without(timers, j), paceTimer(i))
                        ELSE Without(timers, j)
           /\ isRewritten' = (isRewritten \/ st.finished)
           /\ ev' = Event("pace", i, isRewritten, FALSE, st.proc.resp)
    /\ UNCHANGED <<page, dom, originalTexts, msgs, pre, fnIn, fnOut, sums, downloads>>

\* The body's cue ends.
FadeTimer(j) ==
    /\ timers[j].kind = "fade"
    /\ CanFire(j)
    /\ dom' = [dom EXCEPT ![BodyId].style["opacity"] = "1"]
    /\ timers' = Without(timers, j)
    /\ ev' = Event("fade", 0, isRewritten, FALSE, NoResp)
    /\ UNCHANGED <<page, originalTexts, isRewritten, procs, msgs, pre, fnIn, fnOut, sums, downloads>>

\* what the service may answer to a summary request
SummaryOutcomes ==
    { FailOutcome("reject"), FailOutcome("http"), FailOutcome("malformed"),
      OkOutcome(Blank), OkOutcome(Padded(EasyText)) }

\* A summarizePage message arrives: summarizePageContent up to its await.
SummarizePage ==
    /\ msgs < MaxMsgs
    /\ Quiet
    /\ LET pageText == extractMainContent(dom)
           i == Len(sums) + 1
           sum == IF IsBlank(pageText)
                  THEN NewSum("done", NoPrompt, Failure("No readable text content found on this page"))
                  ELSE NewSum("fetch", summaryPrompt(pageText), NoResp)
       IN  /\ sums' = Append(sums, sum)
           /\ ev' = Event("summarizePage", i, isRewritten, FALSE, sum.resp)
    /\ msgs' = msgs + 1
    /\ UNCHANGED <<page, dom, originalTexts, isRewritten, procs, timers, pre, fnIn, fnOut, downloads>>

\* The fetch of summary invocation i settles: the rest of createSummary,
\* downloadSummaryAsText and the answer.
SettleSummary(i) ==
    /\ sums[i].pc = "fetch"
    /\ \E outcome \in SummaryOutcomes :
        LET r == createSummary(sums[i].prompt.text, outcome)
        IN  /\ downloads' = IF r.settled = "resolved"
                            THEN Append(downloads, Download(r.value))
                            ELSE downloads
            /\ dom' = IF r.settled = "resolved"
                      THEN downloadSummaryAsText(dom, r.value)
                      ELSE dom
            /\ sums' = [sums EXCEPT ![i].pc = "done", ![i].outcome = outcome,
                                    ![i].resp = summaryReply(r)]
    /\ ev' = Event("settleSummary", i, isRewritten, FALSE, sums'[i].resp)
    /\ UNCHANGED <<page, originalTexts, isRewritten, procs, timers, msgs, pre, fnIn, fnOut>>

UnitChanged(d, item) == innerHTML(d, item.element) # item.originalHTML

\* The listener's case 'resetPage': resetPageContent, then {success: true}.
OnResetPage ==
    /\ msgs < MaxMsgs
    /\ IF resetApplies(isRewritten)
       THEN /\ dom' = bodyCue(resetAll(dom, originalTexts))
            /\ isRewritten' = FALSE
            /\ timers' = Append(timers, fadeTimer)
       ELSE UNCHANGED <<dom, isRewritten, timers>>
    /\ ev' = Event("resetPage", 0, isRewritten,
                   \E u \in 1..Len(originalTexts) : UnitChanged(dom, originalTexts[u]),
                   Success(0))
    /\ msgs' = msgs + 1
    /\ UNCHANGED <<page, originalTexts, procs, pre, fnIn, fnOut, sums, downloads>>

\* A resetPage message arrives when the last message has been answered.
ResetPage == Quiet /\ OnResetPage

Init ==
    /\ dom \in Pages
    /\ originalTexts = <<>>
    /\ isRewritten = FALSE
    /\ procs = <<>>
    /\ timers = <<>>
    /\ msgs = 0
    /\ ev = Event("init", 0, FALSE, FALSE, NoResp)
    /\ pre = dom
    /\ fnIn = NoFn
    /\ fnOut = NoOut
    /\ sums = <<>>
    /\ downloads = <<>>
    /\ page = dom

Next ==
    \/ RewritePage
    \/ \E i \in 1..Len(procs) : SettleFetch(i)
    \/ \E j \in 1..Len(timers) : WriteTimer(j)
    \/ \E j \in 1..Len(timers) : PaceTimer(j)
    \/ \E j \in 1..Len(timers) : FadeTimer(j)
    \/ ResetPage
    \/ SummarizePage
    \/ \E i \in 1..Len(sums) : SettleSummary(i)

\* One message at a time: the next one arrives after the last was answered.
Spec == Init /\ [][Next]_vars

\* rewritePage invocations under way at once
MaxInFlight == 2

InFlight == Cardinality({i \in 1..Len(procs) : procs[i].pc # "done"})

\* the pages of the runs with overlapping messages
OverlapPages == {PageFiltered, PageArticle, PageEmpty, PageNavOnly}

InitOverlap == Init /\ dom \in OverlapPages

\* Messages arrive at any time, also while a rewritePage is being handled.
NextOverlap ==
    \/ (InFlight < MaxInFlight /\ OnRewritePage)
    \/ \E i \in 1..Len(procs) : SettleFetch(i)
    \/ \E j \in 1..Len(timers) : WriteTimer(j)
    \/ \E j \in 1..Len(timers) : PaceTimer(j)
    \/ \E j \in 1..Len(timers) : FadeTimer(j)
    \/ OnResetPage

SpecOverlap == InitOverlap /\ [][NextOverlap]_vars

----------------------------------------------------------------------------
(* The Rewrite Client's functions applied on their own *)

FoxText ==
    <<"T", "h", "e", " ", "q", "u", "i", "c", "k", " ", "b", "r", "o", "w", "n", " ", "f", "o", "x", " ", "j", "u", "m", "p", "s", " ", "o", "v", "e", "r", " ", "t", "h", "e", " ", "l", "a", "z", "y", " ", "d", "o", "g", " ", "a", "n", "d", " ", "r", "u", "n", "s", " ", "a", "w", "a", "y", " ", "f", "a", "s", "t">>

PeriodicText ==
    <<"a", " ", "a", " ", "a", " ", "a", " ", "a", " ", "a", " ", "a", " ", "a", " ", "a">>

AlphaText ==
    <<"a", "b", "c", "d", "e", "f", "g", "h", "i", "j", "k", "l", "m", "n", "o", "p", "q", "r", "s", "t">>

ShortText ==
    <<"s", "h", "o", "r", "t", " ", "t", "e", "x", "t">>

Exact15Text ==
    <<"e", "x", "a", "c", "t", "l", "y", " ", "1", "5", " ", "c", "h", "a", "r">>

Short14Text ==
    <<"f", "o", "u", "r", "t", "e", "e", "n", " ", "c", "h", "a", "r", "s">>

XaText ==
    <<"X", "a">>

\* a text longer than the 2000 characters the client keeps
LongRaw == [i \in 1..(MaxCleanLen + 4) |-> IF i % 7 = 0 THEN " " ELSE "w"]

Reverse(s) == [i \in 1..Len(s) |-> s[Len(s) + 1 - i]]

CleanOriginals ==
    {FoxText, PeriodicText, AlphaText, ShortText, Exact15Text, Short14Text}

Leads == {<<>>, XaText, EasyText}

Separators == {<<>>, <<" ">>, Newline, Newline \o Newline}

EchoKinds == {"none", "full", "prefix", "fill", "reversed"}

Suffixes == {<<>>, <<".">>}

\* the part of a model output that repeats the original
EchoOf(kind, original, room) ==
    CASE kind = "full" -> original
      [] kind = "prefix" -> substring(original, 0, tailThreshold(original))
      [] kind = "fill" -> substring(original, 0, Max(0, room))
      [] kind = "reversed" -> Reverse(original)
      [] OTHER -> <<>>

\* a model output: a lead, a separator, an echo of the original, a suffix
Compose(R, sep, kind, original, suf) ==
    R \o sep \o EchoOf(kind, original, Len(original) - Len(R) - Len(sep) - Len(suf)) \o suf

CleanInputs ==
    { [fn |-> "clean", text |-> <<>>, original |-> o,
       rewritten |-> Compose(R, sep, kind, o, suf),
       R |-> R, sep |-> sep, echo |-> kind,
       outcome |-> [kind |-> "none", content |-> <<>>]] :
      o \in CleanOriginals, R \in Leads, sep \in Separators,
      kind \in EchoKinds, suf \in Suffixes }

RawTexts == {WeatherRaw, FoxText, PeriodicText, ShortText, LongRaw, <<>>}

\* what the service may answer, fetch settled
FnOutcomes(text) ==
    {FailOutcome(k) : k \in FailKinds}
    \cup {OkOutcome(c) : c \in {<<>>, Blank, Newline, EasyText, Padded(EasyText),
                                cleanTextOf(text),
                                EasyText \o Newline \o cleanTextOf(text)}}

RewriteInputs ==
    { [fn |-> "rewrite", text |-> t, original |-> <<>>, rewritten |-> <<>>,
       R |-> <<>>, sep |-> <<>>, echo |-> "none", outcome |-> oc] :
      t \in RawTexts, oc \in UNION {FnOutcomes(t2) : t2 \in RawTexts} }

Returned(v) == [done |-> TRUE, settled |-> "returned", value |-> v]

Settled(r) == [done |-> TRUE, settled |-> r.settled, value |-> r.value]

CallClean ==
    /\ fnIn.fn = "clean"
    /\ ~fnOut.done
    /\ fnOut' = Returned(cleanRewrittenText(fnIn.rewritten, fnIn.original))
    /\ UNCHANGED <<page, dom, originalTexts, isRewritten, procs, timers, msgs, ev, pre, fnIn, sums, downloads>>

CallRewrite ==
    /\ fnIn.fn = "rewrite"
    /\ ~fnOut.done
    /\ fnOut' = Settled(rewriteTextWithOpenAI(fnIn.text, fnIn.outcome))
    /\ UNCHANGED <<page, dom, originalTexts, isRewritten, procs, timers, msgs, ev, pre, fnIn, sums, downloads>>

\* n words of len letters each, one space between them
Words(n, len) == [i \in 1..(n * (len + 1) - 1) |-> IF i % (len + 1) = 0 THEN " " ELSE "w"]

\* page texts around the 500-word and the 12000-character marks, each
\* given by its number of words, their length and whether whitespace
\* surrounds the text
SummaryShapes ==
    { [words |-> n, len |-> 1, padded |-> pad] :
        n \in (SummaryWordLimit - 1)..(SummaryWordLimit + 1), pad \in BOOLEAN }
    \cup { [words |-> SummaryWordLimit + 100, len |-> 23, padded |-> pad] : pad \in BOOLEAN }
    \cup { [words |-> SummaryWordLimit - 100, len |-> 40, padded |-> pad] : pad \in BOOLEAN }
    \cup { [words |-> SummaryWordLimit, len |-> 24, padded |-> FALSE],
           [words |-> 9, len |-> 4, padded |-> TRUE] }

PageText(shape) ==
    IF shape.padded THEN Padded(Words(shape.words, shape.len))
    ELSE Words(shape.words, shape.len)

SummaryInputs ==
    { [fn |-> "summary", shape |-> sh] : sh \in SummaryShapes }

\* what is recorded of a prompt: its word target, and the length and the
\* last character of the text it carries
Recorded(prompt) ==
    [targetWordCount |-> prompt.targetWordCount,
     length |-> Len(prompt.text),
     last |-> IF prompt.text = <<>> THEN "" ELSE prompt.text[Len(prompt.text)]]

\* cleanTextContent on a page's text, then the prompt createSummary builds
CallSummary ==
    /\ fnIn.fn = "summary"
    /\ ~fnOut.done
    /\ fnOut' = Returned(Recorded(summaryPrompt(cleanTextContent(PageText(fnIn.shape)))))
    /\ UNCHANGED <<page, dom, originalTexts, isRewritten, procs, timers, msgs, ev, pre, fnIn, sums, downloads>>

InitFn ==
    /\ dom = <<>>
    /\ originalTexts = <<>>
    /\ isRewritten = FALSE
    /\ procs = <<>>
    /\ timers = <<>>
    /\ msgs = 0
    /\ ev = Event("init", 0, FALSE, FALSE, NoResp)
    /\ pre = dom
    /\ fnIn \in CleanInputs \cup RewriteInputs \cup SummaryInputs
    /\ fnOut = NoOut
    /\ sums = <<>>
    /\ downloads = <<>>
    /\ page = dom

NextFn == CallClean \/ CallRewrite \/ CallSummary

SpecFn == InitFn /\ [][NextFn]_vars

----------------------------------------------------------------------------
(* The Writer applied on its own to an element of a page *)

WriterPages == Pages \cup {PageShapes}

NewTexts == {EasyText, WeatherRaw, <<>>}

IsElement(d, id) == d[id].kind = "elem"

WriterInputs(d) ==
    { [fn |-> "write", element |-> el, newText |-> t] :
      el \in {n \in 1..Len(d) : IsElement(d, n)}, t \in NewTexts }

\* replaceElementTextContent(element, newText) up to its setTimeout
CallWriter ==
    /\ fnIn.fn = "write"
    /\ ev.op = "init"
    /\ dom' = beginTransition(dom, fnIn.element)
    /\ timers' = Append(timers, writeTimer(dom, fnIn.element, fnIn.newText))
    /\ ev' = Event("call", 0, isRewritten, FALSE, NoResp)
    /\ pre' = dom
    /\ UNCHANGED <<page, originalTexts, isRewritten, procs, msgs, fnIn, fnOut, sums, downloads>>

InitWriter ==
    /\ dom \in WriterPages
    /\ originalTexts = <<>>
    /\ isRewritten = FALSE
    /\ procs = <<>>
    /\ timers = <<>>
    /\ msgs = 0
    /\ ev = Event("init", 0, FALSE, FALSE, NoResp)
    /\ pre = dom
    /\ fnIn \in WriterInputs(dom)
    /\ fnOut = NoOut
    /\ sums = <<>>
    /\ downloads = <<>>
    /\ page = dom

NextWriter ==
    \/ CallWriter
    \/ \E j \in 1..Len(timers) : WriteTimer(j)

SpecWriter == InitWriter /\ [][NextWriter]_vars

----------------------------------------------------------------------------
(* Properties of the Rewrite Client (checked under SpecFn) *)

\* C1: when the network call rejects, the HTTP status is not successful or
\* the completion is blank after trimming, rewriteTextWithOpenAI resolves
\* (it does not reject) with exactly the text it was given: the raw text,
\* not the clean text built from it.
C1_FailOpenReturnsText ==
    (fnOut.done /\ fnIn.fn = "rewrite" /\ ClientFailed(fnIn.outcome))
        => (fnOut.settled = "resolved" /\ fnOut.value = fnIn.text)

\* a failed call on a non-empty text that its clean text differs from
C1_Witness ==
    /\ fnOut.done
    /\ fnIn.fn = "rewrite"
    /\ ClientFailed(fnIn.outcome)
    /\ fnIn.text # <<>>
    /\ cleanTextOf(fnIn.text) # fnIn.text
    /\ fnOut.value # <<>>

\* the call site's output: trimmed and not empty
AtCallSite(rewritten) == rewritten # <<>> /\ trim(rewritten) = rewritten

\* C2: for an output whose length equals the clean input's length exactly,
\* cleanRewrittenText returns the output unchanged, also when the output's
\* tail matches the first 80% of the input.
C2_EqualLengthKept ==
    (/\ fnOut.done
     /\ fnIn.fn = "clean"
     /\ AtCallSite(fnIn.rewritten)
     /\ Len(fnIn.rewritten) = Len(fnIn.original))
        => fnOut.value = fnIn.rewritten

\* C3: for a clean input of more than 15 characters and an output
\* R + separator + cleanInput with R non-empty and not containing the input,
\* cleanRewrittenText returns R trimmed.
C3_EchoRemoved ==
    (/\ fnOut.done
     /\ fnIn.fn = "clean"
     /\ Len(fnIn.original) > MinCleanLen
     /\ fnIn.R # <<>>
     /\ ~includes(fnIn.R, fnIn.original)
     /\ fnIn.rewritten = fnIn.R \o fnIn.sep \o fnIn.original)
        => fnOut.value = trim(fnIn.R)

----------------------------------------------------------------------------
(* Properties of the session (checked under Spec) *)

\* a resetPage was just handled, and the page was rewritten when it arrived
ResetRan == ev.op = "resetPage" /\ ev.active

\* C4: after completed rewritePage invocations followed by a resetPage with
\* the page rewritten, every unit element's innerHTML equals the markup
\* stored for the unit at selection, and isRewritten is false.
C4_ResetRestoresMarkup ==
    ResetRan =>
        /\ ~isRewritten
        /\ \A u \in 1..Len(originalTexts) :
              innerHTML(dom, originalTexts[u].element) = originalTexts[u].originalHTML

\* a reset that found a unit's markup changed, on a page with two units
C4_Witness ==
    /\ ResetRan
    /\ ev.changed
    /\ Len(originalTexts) >= 2
    /\ \E i \in 1..Len(procs) : procs[i].resp.success

\* C5: after such a reset no unit element carries an inline value for any
\* property the Writer forces in its delayed callback.
C5_ForcedStylesCleared ==
    ResetRan =>
        \A u \in 1..Len(originalTexts) : \A p \in ForcedProps :
            dom[originalTexts[u].element].style[p] = ""

\* C6: a resetPage handled while isRewritten is false changes no element,
\* leaves originalTexts and isRewritten as they are, sets no timer, and is
\* answered {success: true}.
C6_ResetIdleIsNoop ==
    [][(ev'.op = "resetPage" /\ msgs' = msgs + 1 /\ ~isRewritten)
          => /\ dom' = dom
             /\ originalTexts' = originalTexts
             /\ isRewritten' = isRewritten
             /\ timers' = timers
             /\ ev'.reply.sent /\ ev'.reply.success]_vars

\* a reset handled with isRewritten false after a rewrite had completed
C6_Witness ==
    /\ ev.op = "resetPage"
    /\ ~ev.active
    /\ ev.reply.success
    /\ Len(procs) > 0

\* the invocation the step last taken belongs to has just returned
JustReturned(i) == ev.op \in {"rewritePage", "settle", "pace"} /\ ev.inv = i /\ procs[i].pc = "done"

\* C7: a failure of the Rewrite Client for a unit does not abort the
\* session: the client is called for every unit, in order, and the
\* invocation resolves to {success: true}.
C7_FailureDoesNotAbort ==
    \A i \in 1..Len(procs) :
        (procs[i].pc = "done" /\ procs[i].failed # {})
            => /\ procs[i].resp.sent /\ procs[i].resp.success
               /\ procs[i].called = [k \in 1..procs[i].total |-> k - 1]

\* a finished session of two units whose first unit failed
C7_Witness ==
    \E i \in 1..Len(procs) :
        /\ procs[i].pc = "done"
        /\ 1 \in procs[i].failed
        /\ procs[i].total >= 2
        /\ Len(procs[i].called) = procs[i].total

\* C8: a unit whose client call failed is left untouched by the session:
\* its markup and its inline style are what they were before it.
C8_FailedUnitUntouched ==
    \A i \in 1..Len(procs) :
        JustReturned(i) =>
            \A k \in procs[i].failed :
                LET el == originalTexts[k].element
                IN  /\ innerHTML(dom, el) = innerHTML(pre, el)
                    /\ dom[el].style = pre[el].style

BlockTags == {"p", "div"} \cup HeadingTags

NoWritePending == \A j \in 1..Len(timers) : timers[j].kind # "write"

\* C9: once a session has finished and its Writer timers have fired, no
\* paragraph, heading or container that showed text before the session is
\* left with blank text.
C9_NoBlankElement ==
    \A i \in 1..Len(procs) :
        (JustReturned(i) /\ NoWritePending) =>
            \A n \in 1..Len(pre) :
                (/\ pre[n].tag \in BlockTags
                 /\ Connected(pre, n)
                 /\ ~IsBlank(textContent(pre, n)))
                    => ~IsBlank(textContent(dom, n))

\* C10: the progress values of one invocation are integers in 0..100, never
\* decrease, start at 10, are 10 + floor(80 * i / n) (below 90) before unit
\* i of n, and end with 100 when the invocation succeeds.
C10_Progress ==
    \A i \in 1..Len(procs) :
        LET s == procs[i].sent
            n == procs[i].total
        IN  /\ \A k \in 1..Len(s) : s[k] \in 0..100
            /\ \A k \in 1..(Len(s) - 1) : s[k] <= s[k + 1]
            /\ s[1] = 10
            /\ \A k \in 1..Len(procs[i].called) :
                  /\ s[k + 1] = 10 + (80 * (k - 1)) \div n
                  /\ s[k + 1] < 90
            /\ (procs[i].pc = "done" /\ procs[i].resp.success)
                  => (Len(s) = n + 2 /\ s[Len(s)] = 100)

\* a successful invocation over at least two units
C10_Witness ==
    \E i \in 1..Len(procs) :
        /\ procs[i].pc = "done"
        /\ procs[i].resp.success
        /\ procs[i].total >= 2
        /\ Len(procs[i].sent) = procs[i].total + 2

\* C11: a successful rewritePage reports the size of originalTexts, and the
\* Rewrite Client was called for just that many units in the invocation: the
\* loop's test on the trimmed length skips none of them.
C11_CountIsUnitsSent ==
    \A i \in 1..Len(procs) :
        (JustReturned(i) /\ procs[i].resp.success) =>
            /\ procs[i].resp.elementsRewritten = Len(originalTexts)
            /\ Len(procs[i].called) = Len(originalTexts)
            /\ \A k \in 1..Len(originalTexts) :
                   Len(trim(originalTexts[k].originalText)) > MinUnitLen

\* a successful invocation has just returned over two units
C11_Witness ==
    \E i \in 1..Len(procs) :
        /\ JustReturned(i)
        /\ procs[i].resp.success
        /\ procs[i].resp.elementsRewritten = 2
        /\ Len(procs[i].called) = 2

----------------------------------------------------------------------------
(* Properties of the Writer applied on its own (checked under SpecWriter) *)

\* the Writer's delayed substitution has just run on the element it was given
WriterDone == fnIn.fn = "write" /\ ev.op = "write"

BoldAndSlanted(d, el) ==
    /\ getComputedStyle(d, el, "fontWeight") # InitialValue["fontWeight"]
    /\ getComputedStyle(d, el, "fontStyle") # InitialValue["fontStyle"]

\* C12: an element whose computed font-weight and font-style are not the
\* defaults has the same computed font-weight and font-style once the
\* Writer's delayed substitution has run, whichever way the text was put in:
\* its inline style then holds the two values captured before the call.
C12_WeightAndStyleKept ==
    (WriterDone /\ BoldAndSlanted(pre, fnIn.element)) =>
        \A p \in {"fontWeight", "fontStyle"} :
            /\ getComputedStyle(dom, fnIn.element, p) = getComputedStyle(pre, fnIn.element, p)
            /\ dom[fnIn.element].style[p] = getComputedStyle(pre, fnIn.element, p)

\* the element has one text node / several text nodes / no text node
OneTextNode(d, el) == Len(d[el].kids) = 1 /\ d[d[el].kids[1]].kind = "text"

\* the Writer has put a new text into a bold, slanted element with no text
\* node, whose typography comes from the style sheet
C12_Witness ==
    /\ WriterDone
    /\ BoldAndSlanted(pre, fnIn.element)
    /\ getTextNodes(pre, fnIn.element) = <<>>
    /\ pre[fnIn.element].style["fontWeight"] = ""
    /\ textContent(dom, fnIn.element) = EasyText

----------------------------------------------------------------------------
(* Properties of the session, continued (checked under Spec) *)

\* rewritePageContent has just run storeOriginalTexts
StoreRan == ev.op = "rewritePage" /\ ~ev.active

----------------------------------------------------------------------------
(* Properties of the Summarizer's prompt (checked under SpecFn) *)

\* the whitespace-separated words of a text
WordCount(s) ==
    Cardinality({i \in 1..Len(s) : s[i] \notin WS /\ (i = 1 \/ s[i - 1] \in WS)})

\* C14: createSummary asks for 500-600 words exactly when the extracted
\* page text has more than 500 whitespace-separated words, for at most 100
\* words otherwise, and submits at most 12000 characters of text.
C14_WordTarget ==
    (fnIn.fn = "summary" /\ fnOut.done) =>
        LET extracted == cleanTextContent(PageText(fnIn.shape))
        IN  /\ fnOut.value.targetWordCount =
                   (IF WordCount(extracted) > SummaryWordLimit
                    THEN "500-600" ELSE "maximum 100")
            /\ fnOut.value.length <= SummaryMaxLen

----------------------------------------------------------------------------
(* Properties of the answers to messages (checked under Spec) *)

\* every invocation that has ended has sent a {success: ...} answer, none
\* has sent one before, and resetPage is answered {success: true} at once
Answered ==
    /\ \A i \in 1..Len(procs) :
          /\ procs[i].resp.sent = (procs[i].pc = "done")
          /\ procs[i].resp.success \in BOOLEAN
    /\ \A i \in 1..Len(sums) :
          /\ sums[i].resp.sent = (sums[i].pc = "done")
          /\ sums[i].resp.success \in BOOLEAN
    /\ ev.op = "resetPage" => (ev.reply.sent /\ ev.reply.success)

\* an answer once sent is not followed by another
AnsweredOnce ==
    /\ \A i \in 1..Len(procs) : procs[i].resp.sent => procs'[i].resp = procs[i].resp
    /\ \A i \in 1..Len(sums) : sums[i].resp.sent => sums'[i].resp = sums[i].resp

\* an invocation under way has its next step ahead of it: a fetch to settle
\* or the pacing timer of its loop
NextStepPending ==
    /\ \A i \in 1..Len(procs) :
          procs[i].pc \in {"start", "pace"} =>
              \E j \in 1..Len(timers) : timers[j].kind = "pace" /\ timers[j].inv = i
    /\ \A i \in 1..Len(sums) : sums[i].pc \in {"fetch", "done"}

RECURSIVE StepsLeft(_)
\* a bound on the steps the invocations under way still take
StepsLeft(ps) ==
    IF ps = <<>> THEN 0
    ELSE LET p == Head(ps)
         IN  (CASE p.pc = "done" -> 0
                [] p.pc = "fetch" -> 3 * (p.total - p.idx) + 4
                [] OTHER -> 3 * (p.total - p.idx) + 1)
             + StepsLeft(Tail(ps))

\* a measure every step lowers, so that no run goes on for ever
Measure ==
    100 * (MaxMsgs - msgs) + StepsLeft(procs) + Len(timers)
    + Cardinality({i \in 1..Len(sums) : sums[i].pc # "done"})

\* C15: every rewritePage, summarizePage and resetPage message is answered
\* with one result {success: true or false, ...}, whatever the service
\* answers (rejection, error status, malformed or blank completion), given
\* that its calls settle: the answer is sent when the invocation ends, no
\* second answer follows, and an invocation under way always has its next
\* step ahead of it while every step brings the end nearer.
C15_EveryMessageAnswered ==
    /\ [](Answered /\ NextStepPending)
    /\ [][AnsweredOnce /\ Measure' < Measure]_vars

\* a rewritePage and a summarizePage whose service call was rejected have
\* both been answered, and a resetPage has just been answered
C15_Witness ==
    /\ ev.op = "resetPage"
    /\ \E i \in 1..Len(procs) : procs[i].failed # {} /\ procs[i].resp.sent
    /\ \E i \in 1..Len(sums) :
          /\ sums[i].prompt # NoPrompt
          /\ sums[i].resp.sent
          /\ ~sums[i].resp.success

----------------------------------------------------------------------------
(* Properties of the session: pages without content (checked under Spec) *)

\* C16: on a page with no text to work on (the selection finds no unit, the
\* extraction gives blank text) a rewritePage or summarizePage invocation
\* resolves to {success: false, error}, and isRewritten does not become true.
C16_NoContentAborts ==
    /\ \A i \in 1..Len(procs) :
          (JustReturned(i) /\ procs[i].total = 0) =>
              /\ procs[i].resp.sent
              /\ ~procs[i].resp.success
              /\ ~isRewritten
    /\ (ev.op = "summarizePage" /\ IsBlank(extractMainContent(dom))) =>
          /\ ev.reply.sent
          /\ ~ev.reply.success
          /\ isRewritten = ev.active

\* C17: when the service answers a summary request with a completion that
\* is blank after trimming, summarizePage resolves to {success: false,
\* error} and hands no file to the browser.
C17_BlankSummaryAborts ==
    \A i \in 1..Len(sums) :
        (/\ ev.op = "settleSummary" /\ ev.inv = i
         /\ sums[i].outcome.kind = "ok"
         /\ IsBlank(sums[i].outcome.content)) =>
            /\ sums[i].resp.sent
            /\ ~sums[i].resp.success
            /\ Len(downloads) = Cardinality({k \in 1..(i - 1) : sums[k].resp.success})

----------------------------------------------------------------------------
(* Properties of the order of work in a session (checked under Spec) *)

\* the pacing delay of invocation i is running
Pacing(i) == \E j \in 1..Len(timers) : timers[j].kind = "pace" /\ timers[j].inv = i

\* C18: in one session the Rewrite Client is called for the units 0, 1, ...,
\* n-1 in that order, once each; a call is under way only when every earlier
\* call has resolved and the pacing delay after it has run out, so that at
\* most one call of the session is in flight.
C18_CallsInOrder ==
    \A i \in 1..Len(procs) :
        LET p == procs[i]
            inFlight == Len(p.called) - p.processed
        IN  /\ p.called = [k \in 1..Len(p.called) |-> k - 1]
            /\ Len(p.called) <= p.total
            /\ inFlight \in {0, 1}
            /\ (inFlight = 1) = (p.pc = "fetch")
            /\ p.pc = "fetch" => ~Pacing(i)
            /\ (p.pc = "done" /\ p.resp.success) => Len(p.called) = p.total

\* the second call of a session is in flight, the first one having failed
C18_Witness ==
    \E i \in 1..Len(procs) :
        /\ procs[i].pc = "fetch"
        /\ procs[i].called = <<0, 1>>
        /\ procs[i].processed = 1
        /\ procs[i].failed = {1}

\* the Writer operations of invocation i in progress: begun, their delayed
\* substitution still to run
WritesInProgress(i) ==
    {j \in 1..Len(timers) : timers[j].kind = "write" /\ timers[j].inv = i}

\* C19: in one session no two Writer operations are in progress on the same
\* element at any time.  More holds: a session has at most one Writer
\* operation in progress, the substitution of a unit running before the
\* pacing delay that precedes the next unit has ended.
C19_OneWriteAtATime ==
    \A i \in 1..Len(procs) :
        /\ \A j, k \in WritesInProgress(i) :
              timers[j].element = timers[k].element => j = k
        /\ Cardinality(WritesInProgress(i)) <= 1
        /\ WritesInProgress(i) # {} => procs[i].pc = "pace"

\* the Writer operation of the second unit of a session is in progress
C19_Witness ==
    \E i \in 1..Len(procs) :
        /\ WritesInProgress(i) # {}
        /\ procs[i].processed = 2
        /\ \A j \in WritesInProgress(i) :
              timers[j].element = originalTexts[2].element

----------------------------------------------------------------------------
(* Properties of the selection (checked under Spec) *)

RECURSIVE IsAncestor(_, _, _)
\* node a is above node b in the page
IsAncestor(d, a, b) ==
    IF d[b].parent = 0 THEN FALSE
    ELSE d[b].parent = a \/ IsAncestor(d, a, d[b].parent)

\* the element has a paragraph, a heading or a container somewhere below it
HasBlockDescendant(d, el) ==
    \E k \in 1..Len(descendants(d, el)) : d[descendants(d, el)[k]].tag \in BlockTags

\* C20: a div is selected only if it has no block-level descendant, so that
\* no unit's element is above another unit's element and no text belongs
\* to two units.
C20_NoNestedUnits ==
    StoreRan =>
        /\ \A a \in 1..Len(originalTexts) :
              dom[originalTexts[a].element].tag = "div"
                  => ~HasBlockDescendant(dom, originalTexts[a].element)
        /\ \A a, b \in 1..Len(originalTexts) :
              ~IsAncestor(dom, originalTexts[a].element, originalTexts[b].element)

RECURSIVE InsideAnchor(_, _)
\* the node has an <a> somewhere above it
InsideAnchor(d, id) ==
    IF d[id].parent = 0 THEN FALSE
    ELSE d[d[id].parent].tag = "a" \/ InsideAnchor(d, d[id].parent)

\* C21: no selected unit's element is interactive: none is a button or an
\* anchor, has role="button", carries a click handler, or is nested inside
\* an anchor.
C21_NoInteractiveUnit ==
    StoreRan =>
        \A u \in 1..Len(originalTexts) :
            LET el == originalTexts[u].element
            IN  /\ dom[el].tag \notin {"button", "a"}
                /\ dom[el].role # "button"
                /\ ~dom[el].onclick
                /\ ~InsideAnchor(dom, el)

\* the place of a node in document order
DocPosition(d, id) ==
    LET all == <<BodyId>> \o descendants(d, BodyId)
    IN  CHOOSE k \in 1..Len(all) : all[k] = id

\* C22: in every state of the session the keys of originalTexts are
\* 0..n-1 in the order the units were found, which is document order, and
\* every unit's originalText has more than 25 characters once trimmed.
C22_DenseKeysLongTexts ==
    /\ \A k \in 1..Len(originalTexts) :
          /\ originalTexts[k].index = k - 1
          /\ Len(trim(originalTexts[k].originalText)) > MinUnitLen
    /\ StoreRan =>
          \A a, b \in 1..Len(originalTexts) :
              a < b => DocPosition(dom, originalTexts[a].element)
                         < DocPosition(dom, originalTexts[b].element)

\* a session is active whose first unit, under key 0, follows in the query
\* result a paragraph that was passed over
C22_Witness ==
    /\ isRewritten
    /\ Len(originalTexts) >= 1
    /\ originalTexts[1].index = 0
    /\ \E n \in 1..Len(dom) :
          /\ dom[n].tag = "p"
          /\ Connected(dom, n)
          /\ DocPosition(dom, n) < DocPosition(dom, originalTexts[1].element)

----------------------------------------------------------------------------
(* Properties of the Writer applied on its own, continued (SpecWriter) *)

\* C23: once the Writer's delayed substitution has run, the element's
\* flattened text is exactly the new text, with nothing left of the old
\* one, whatever the element holds: one text node, several, or none.
C23_TextIsNewText ==
    WriterDone => textContent(dom, fnIn.element) = fnIn.newText

\* C24: once the Writer's delayed substitution has run, the element's inline
\* style holds, for each of the ten captured properties (letter-spacing
\* among them), the value captured before the call.
C24_SnapshotReapplied ==
    WriterDone =>
        \A p \in CapturedProps :
            dom[fnIn.element].style[p] = getComputedStyle(pre, fnIn.element, p)

\* C25: once the Writer's delayed substitution has run, the element's inline
\* opacity and transition are what they were before the call.
C25_TransitionUndone ==
    WriterDone =>
        /\ dom[fnIn.element].style["opacity"] = pre[fnIn.element].style["opacity"]
        /\ dom[fnIn.element].style["transition"] = pre[fnIn.element].style["transition"]

----------------------------------------------------------------------------
(* Properties of the session: restoring, reusing, summarizing (Spec) *)

\* C26: a rewrite followed by a reset gives every unit element the inline
\* style it had before the rewrite, property by property.
C26_ResetRestoresStyle ==
    (ResetRan /\ Len(procs) = 1) =>
        \A u \in 1..Len(originalTexts) :
            dom[originalTexts[u].element].style = pre[originalTexts[u].element].style

\* a rewritePage that arrives while the session is active keeps originalTexts
UnitsKept == (ev'.op = "rewritePage" /\ ev'.active /\ msgs' # msgs) => originalTexts' = originalTexts

\* originalTexts changes with a selection only
UnitsImmutable == originalTexts' # originalTexts => (ev'.op = "rewritePage" /\ ~isRewritten)

\* the unit whose text is with the Rewrite Client is the stored unit
SendsStoredText ==
    \A i \in 1..Len(procs) :
        procs[i].pc = "fetch" => procs[i].item = originalTexts[procs[i].idx]

\* C27: a rewritePage that starts while the session is active skips the
\* selection and leaves originalTexts as it is, and the text it sends to the
\* Rewrite Client for a unit is the originalText stored at the selection,
\* not the text the element shows after the earlier rewrite.
C27_ActiveRestartReusesUnits ==
    /\ [][UnitsKept /\ UnitsImmutable]_vars
    /\ []SendsStoredText

\* a second rewritePage of an active session has sent the stored text of a
\* unit whose element now shows another text
C27_Witness ==
    \E i \in 1..Len(procs) :
        /\ i >= 2
        /\ isRewritten
        /\ procs[i].pc = "fetch"
        /\ procs[i].item.originalText = originalTexts[procs[i].idx].originalText
        /\ textContent(dom, procs[i].item.element) # procs[i].item.originalText

\* a step of a summarizePage invocation
SummaryStep == sums' # sums

\* the step leaves the markup and the inline style of every unit element
UnitsUntouched ==
    \A u \in 1..Len(originalTexts) :
        LET el == originalTexts[u].element
        IN  /\ innerHTML(dom', el) = innerHTML(dom, el)
            /\ dom'[el].style = dom[el].style

\* C28: summarizePage never writes into the page or the session: whatever
\* its outcome, each of its steps leaves originalTexts and isRewritten
\* unchanged and leaves the markup and the inline style of every unit
\* element unchanged.
C28_SummaryWritesNothing ==
    [][SummaryStep =>
        /\ originalTexts' = originalTexts
        /\ isRewritten' = isRewritten
        /\ UnitsUntouched]_vars

\* a summary of a rewritten page was downloaded, its link gone through the
\* body, while a unit shows a text other than its stored one
C28_Witness ==
    /\ ev.op = "settleSummary"
    /\ ev.reply.success
    /\ isRewritten
    /\ downloads # <<>>
    /\ Len(dom) > Len(pre)
    /\ ~Connected(dom, Len(dom))
    /\ \E u \in 1..Len(originalTexts) : UnitChanged(dom, originalTexts[u])

----------------------------------------------------------------------------
(* Properties of the return of a session (Spec) *)

\* invocation i has set isRewritten and resolved to {success: true}
ReturnedSuccess(i) == procs[i].pc = "done" /\ procs[i].resp.success

\* a delayed substitution runs for an invocation that has returned
LateWrite == ev'.op = "write" /\ timers' # timers /\ procs[ev'.inv].pc = "done"

\* C29: when a rewritePage invocation sets isRewritten and returns its
\* outcome, every delayed substitution it started has run, the 150 ms timer
\* of the last unit firing before the 200 ms pacing delay ends; so no
\* substitution of the invocation runs after its outcome, and a resetPage
\* that follows the outcome is not overwritten.
C29_WritesDoneAtReturn ==
    /\ [](\A i \in 1..Len(procs) : ReturnedSuccess(i) => WritesInProgress(i) = {})
    /\ [][~LateWrite]_vars

\* an invocation has just returned success, no substitution is pending, and
\* its last unit's element shows the text written for it
C29_Witness ==
    \E i \in 1..Len(procs) :
        /\ JustReturned(i)
        /\ ReturnedSuccess(i)
        /\ isRewritten
        /\ timers = <<>>
        /\ originalTexts # <<>>
        /\ UnitChanged(dom, originalTexts[Len(originalTexts)])
        /\ procs[i].failed = {}

----------------------------------------------------------------------------
(* Properties of overlapping messages (SpecOverlap) *)

\* the markup stored for every unit is the markup its element was loaded with
StoredPristine ==
    \A u \in 1..Len(originalTexts) :
        originalTexts[u].originalHTML = innerHTML(page, originalTexts[u].element)

\* every invocation has finished and every delayed substitution has run
AllFinished ==
    /\ \A i \in 1..Len(procs) : procs[i].pc = "done"
    /\ \A j \in 1..Len(timers) : timers[j].kind # "write"

\* the elements selected on the page as loaded and those selected now
EverUnits ==
    {storeOriginalTexts(page)[u].element : u \in 1..Len(storeOriginalTexts(page))}
        \cup {originalTexts[u].element : u \in 1..Len(originalTexts)}

\* C30: under every interleaving of rewritePage and resetPage messages, a
\* rewritePage that arrives while another is in flight and a resetPage that
\* arrives during a rewrite included, the markup stored for a unit is always
\* its element's markup from before any substitution, and a resetPage that
\* runs on a rewritten page once all invocations have finished returns every
\* unit element to the markup it was loaded with.
C30_ResetLosslessUnderOverlap ==
    /\ []StoredPristine
    /\ []((ResetRan /\ AllFinished) =>
            \A el \in EverUnits : innerHTML(dom, el) = innerHTML(page, el))

====
